---- MODULE Spec2Model ----
(***************************************************************************)
(* Model of src/transaction_helper.py: the record fetchers built on the    *)
(* NetSuite SDK's PaginatedSearch.  One call of one public fetch operation *)
(* is executed step by step; every use of the connection handle           *)
(* (criterion constructors, basic_search_factory, the PaginatedSearch      *)
(* constructor, goto_page, getAll) is one step whose outcome the remote    *)
(* service chooses: it answers, or it raises.                              *)
(***************************************************************************)
EXTENDS Integers, Sequences, FiniteSets, TLC

VARIABLES op, arg, tier, callee, pc, ci, ps, page, records, result, log, outcome

vars == <<op, arg, tier, callee, pc, ci, ps, page, records, result, log, outcome>>

\* ------------------------------------------------------------------ bounds

\* Largest total page count a query reports.
MaxPages == 2
\* Largest total record count a query (or getAll) reports.
MaxRecords == 2

\* pageSize=100, passed to every PaginatedSearch.
pageSize == 100

\* ------------------------------------------------------- the remote service

\* A record without a recordType attribute carries Absent.
Absent == "<absent>"

\* Values of the recordType attribute on the records of a search.  The code reads
\* the attribute only where it filters (tier 2 of get_journal_entries); the
\* records of every other search are opaque to it and stand for any record.
RecordTypes(inspected) ==
    IF inspected THEN {"JournalEntry", "Invoice", Absent} ELSE {Absent}

SeqsUpTo(S, n) == UNION {[1..k -> S] : k \in 0..n}

RECURSIVE Total(_)
Total(pp) == IF pp = <<>> THEN 0 ELSE Len(Head(pp)) + Total(Tail(pp))

\* What a search can hold: its pages, each the recordType values of its records.
PagesOver(K) ==
    {pp \in SeqsUpTo(SeqsUpTo(K, MaxRecords), MaxPages) : Total(pp) <= MaxRecords}

InspectedPages == PagesOver(RecordTypes(TRUE))
OpaquePages == PagesOver(RecordTypes(FALSE))

Pages(inspected) == IF inspected THEN InspectedPages ELSE OpaquePages

\* The PaginatedSearch object: num_records, total_pages and the pages behind it.
Query(type_name, pp) ==
    [type_name |-> type_name, num_records |-> Total(pp), total_pages |-> Len(pp), pages |-> pp]

NoPS == Query("", <<>>)

\* ps.records after ps.goto_page(k), during tier t.
PageRecords(q, k, t) ==
    [i \in 1..Len(q.pages[k]) |->
        [tier |-> t, via |-> "search", type_name |-> q.type_name, page |-> k, idx |-> i,
         recordType |-> q.pages[k][i]]]

\* What getAll(recordType=type_name) returns, during tier t.
GetAllRecords(type_name, n, t) ==
    [i \in 1..n |->
        [tier |-> t, via |-> "getAll", type_name |-> type_name, page |-> 0, idx |-> i,
         recordType |-> Absent]]

\* --------------------------------------------------------- the strategies

Search(calls, type_name, basic, filter) ==
    [kind |-> "search", calls |-> calls, type_name |-> type_name, basic_search |-> basic,
     filter |-> filter, callee |-> "none", arg |-> "", returns |-> "records"]

GetAll(key, type_name) ==
    [kind |-> "getAll", calls |-> <<>>, type_name |-> type_name, basic_search |-> FALSE,
     filter |-> FALSE, callee |-> "none", arg |-> key, returns |-> "records"]

Delegate(fn, a, returns) ==
    [kind |-> "call", calls |-> <<>>, type_name |-> "", basic_search |-> FALSE,
     filter |-> FALSE, callee |-> fn, arg |-> a, returns |-> returns]

get_transaction_data ==
    << Search(<<"SearchStringField", "basic_search_factory">>, "Transaction", TRUE, FALSE) >>

get_custom_lists ==
    << Search(<<"basic_search_factory">>, "CustomList", TRUE, FALSE) >>

get_journal_entries ==
    << Search(<<"SearchBooleanField", "basic_search_factory", "SearchStringField">>,
              "Transaction", TRUE, FALSE),
       Search(<<>>, "Transaction", FALSE, TRUE) >>

get_custom_records ==
    << Search(<<"CustomRecordType", "CustomRecordSearchBasic">>, "CustomRecord", TRUE, FALSE) >>

get_custom_segments ==
    << Search(<<>>, "CustomSegment", FALSE, FALSE),
       GetAll("customSegment", "CustomSegment"),
       Delegate("get_custom_lists", "", "empty") >>

discover_custom_record_types ==
    << Search(<<"basic_search_factory">>, "CustomRecordType", TRUE, FALSE) >>

get_custom_record_types_by_name ==
    << Search(<<"SearchStringField", "basic_search_factory">>, "CustomRecordType", TRUE, FALSE) >>

get_usages ==
    << Search(<<>>, "Usage", FALSE, FALSE),
       GetAll("usage", "Usage"),
       Delegate("get_transaction_data", "Usage", "records"),
       Search(<<"basic_search_factory">>, "Usage", TRUE, FALSE) >>

Strategies(fn) ==
    CASE fn = "get_transaction_data" -> get_transaction_data
      [] fn = "get_custom_lists" -> get_custom_lists
      [] fn = "get_journal_entries" -> get_journal_entries
      [] fn = "get_custom_records" -> get_custom_records
      [] fn = "get_custom_segments" -> get_custom_segments
      [] fn = "discover_custom_record_types" -> discover_custom_record_types
      [] fn = "get_custom_record_types_by_name" -> get_custom_record_types_by_name
      [] fn = "get_usages" -> get_usages

\* The functions whose strategies each sit in a try/except of their own and
\* return from inside it only `if records:`.
Tiered(fn) == fn \in {"get_journal_entries", "get_custom_segments", "get_usages"}

get_invoices == "Invoice"
get_vendor_credits == "VendorCredit"
get_credit_memos == "CreditMemo"

TransactionTypes == {"Invoice", "VendorCredit", "CreditMemo"}

\* The public fetch operations, each with the function it runs and its argument.
Operations ==
    {[name |-> "get_transaction_data", fn |-> "get_transaction_data", arg |-> t] :
        t \in TransactionTypes}
    \cup {[name |-> "get_invoices", fn |-> "get_transaction_data", arg |-> get_invoices],
          [name |-> "get_vendor_credits", fn |-> "get_transaction_data", arg |-> get_vendor_credits],
          [name |-> "get_credit_memos", fn |-> "get_transaction_data", arg |-> get_credit_memos],
          [name |-> "get_custom_lists", fn |-> "get_custom_lists", arg |-> ""],
          [name |-> "get_journal_entries", fn |-> "get_journal_entries", arg |-> ""],
          [name |-> "get_custom_records", fn |-> "get_custom_records", arg |-> "rec_type_id"],
          [name |-> "get_custom_segments", fn |-> "get_custom_segments", arg |-> ""],
          [name |-> "discover_custom_record_types", fn |-> "discover_custom_record_types",
           arg |-> ""],
          [name |-> "get_custom_record_types_by_name",
           fn |-> "get_custom_record_types_by_name", arg |-> "type_name"],
          [name |-> "get_usages", fn |-> "get_usages", arg |-> ""]}

Fn(o) == (CHOOSE x \in Operations : x.name = o).fn

\* ------------------------------------------------- the code's own decisions

\* Mutant: the guard also lets a query of zero records through.
HasRecords_always(q) == q.num_records >= 0

\* `if ps.num_records > 0:`
HasRecords(q) == q.num_records > 0

\* Mutant: `range(1, ps.total_pages)`, the last page is left out.
LastPage_short(q) == q.total_pages - 1

\* `range(1, ps.total_pages + 1)`: the last page number requested.
LastPage(q) == q.total_pages

\* `if ps.records:`
Truthy(recs) == recs # <<>>

\* Mutant: the test is inverted, `if not records:`.
Yielded_inverted(recs) == recs = <<>>

\* `if records:` at the end of a tier (`if custom_lists:` in get_custom_segments).
Yielded(recs) == recs # <<>>

\* The `except Exception` that takes an exception of the connection handle:
\* every function body is one try, and so is every tier of a tiered function.
\* No frame is without one, so "caller" (the exception leaves the operation)
\* is never the answer.
Handler(nested, tiered) ==
    IF nested THEN "callee" ELSE IF tiered THEN "tier" ELSE "function"

\* Mutant: the filter rejects only records of another recordType, and keeps
\* those without the attribute.
JournalFilter_noattr(recs) ==
    SelectSeq(recs, LAMBDA r : r.recordType = Absent \/ r.recordType = "JournalEntry")

\* `[r for r in ps.records if hasattr(r, 'recordType') and r.recordType == 'JournalEntry']`
JournalFilter(recs) ==
    SelectSeq(recs, LAMBDA r : r.recordType # Absent /\ r.recordType = "JournalEntry")

\* `records.extend(ps.records)`, in tier 2 of get_journal_entries of the filtered page.
Extend(acc, recs, filter) ==
    IF Truthy(recs) THEN acc \o (IF filter THEN JournalFilter(recs) ELSE recs) ELSE acc

\* Mutant: the accumulator is not reset, the tier goes on with what is there.
NewAccumulator_keep(recs) == recs

\* `records = []` after the PaginatedSearch is built.
NewAccumulator(recs) == <<>>

\* Mutant: the handler returns what was accumulated so far.
ExceptReturn_partial(recs) == recs

\* `return []` of a function's `except Exception`.
ExceptReturn(recs) == <<>>

\* Mutant: tier 3 of get_custom_segments returns the custom lists it found.
TierReturn_records(returns, recs) == recs

\* What a tier returns once its `if records:` (`if custom_lists:`) holds.
TierReturn(returns, recs) == IF returns = "empty" THEN <<>> ELSE recs

\* Mutant: the tier after the next one runs.
FallThrough_skip(t) == t + 2

\* Mutant: the tier that handed over is tried again.
FallThrough_retry(t) == t

\* The tier that runs after tier t handed over.
FallThrough(t) == t + 1

\* `return []` after "All approaches failed".
AllFailed(recs) == <<>>

\* ------------------------------------------------------------------ state

\* What became of a tier: "returned" (the operation returned from inside it),
\* "passed" (it completed and handed over), "raised", "skipped" (key not in the
\* registry) or "notrun"; the records it returned; and whether it held records
\* of its own when it ended.
Outcome(status, recs, held) == [status |-> status, recs |-> recs, held |-> held]

Fresh == [t \in 1..4 |-> Outcome("notrun", <<>>, FALSE)]

Init ==
    /\ op = "none"
    /\ arg = ""
    /\ tier = 0
    /\ callee = "none"
    /\ pc = "idle"
    /\ ci = 0
    /\ ps = NoPS
    /\ page = 0
    /\ records = <<>>
    /\ result = <<>>
    /\ log = <<>>
    /\ outcome = Fresh

\* The function whose body is executing, and the strategy it is in.
CurFn == IF callee # "none" THEN callee ELSE Fn(op)
Cur == IF callee # "none" THEN Strategies(callee)[1] ELSE Strategies(Fn(op))[tier]
\* The argument in play: that of the nested call, the registry key, or the caller's.
CurArg ==
    IF callee # "none" THEN Strategies(Fn(op))[tier].arg
    ELSE IF Cur.kind = "getAll" THEN Cur.arg
    ELSE arg

\* The records tier t holds at the moment it ends or raises.
Held(t) == SelectSeq(records, LAMBDA r : r.tier = t)

\* One use of the connection handle (or of the SDK), as the service saw it.
\* A PaginatedSearch that answered tells its total_pages and whether its
\* num_records was zero; a registry lookup tells whether the key was found.
Event(call, type_name, k, q, found, raised) ==
    [tier |-> tier, fn |-> CurFn, call |-> call, type_name |-> type_name, value |-> CurArg,
     page |-> k, zero |-> (q.num_records = 0), total_pages |-> q.total_pages,
     pageSize |-> IF call = "PaginatedSearch" THEN pageSize ELSE 0,
     found |-> found, raised |-> raised]

\* ---------------------------------------------------------------- control

\* The tiered function leaves its current tier without returning: the tier's
\* `except Exception` printed, or its `if records:` failed.  The next tier's
\* try starts, or the function ends with "All approaches failed" / `return []`.
HandOver(status) ==
    /\ outcome' = [outcome EXCEPT ![tier] = Outcome(status, <<>>, Held(tier) # <<>>)]
    /\ IF FallThrough(tier) <= Len(Strategies(Fn(op)))
         THEN /\ tier' = FallThrough(tier)
              /\ pc' = "build"
              /\ ci' = 0
              /\ result' = result
         ELSE /\ tier' = tier
              /\ pc' = "done"
              /\ ci' = ci
              /\ result' = AllFailed(records)

\* The connection handle raises; ev is the call that raised.  The innermost
\* enclosing `except Exception` takes it: that of the called function, that of
\* the tier, or that of the single-strategy function.
Raise(ev) ==
    /\ log' = Append(log, ev)
    /\ CASE Handler(callee # "none", Tiered(Fn(op))) = "callee" ->
              /\ records' = ExceptReturn(records)
              /\ callee' = "none"
              /\ pc' = "tail"
              /\ UNCHANGED <<tier, ci, result, outcome>>
         [] Handler(callee # "none", Tiered(Fn(op))) = "tier" ->
              /\ HandOver("raised")
              /\ UNCHANGED <<records, callee>>
         [] Handler(callee # "none", Tiered(Fn(op))) = "function" ->
              /\ result' = ExceptReturn(records)
              /\ pc' = "done"
              /\ outcome' = [outcome EXCEPT ![tier] = Outcome("raised", <<>>, Held(tier) # <<>>)]
              /\ UNCHANGED <<tier, ci, records, callee>>
         [] OTHER ->
              /\ pc' = "raised"
              /\ UNCHANGED <<tier, ci, records, callee, result, outcome>>
    /\ UNCHANGED <<op, arg, ps, page>>

\* ---------------------------------------------------------------- actions

\* The caller invokes one public fetch operation.
Call ==
    /\ pc = "idle"
    /\ \E o \in Operations :
         /\ op' = o.name
         /\ arg' = o.arg
    /\ tier' = 1
    /\ pc' = "build"
    /\ ci' = 0
    /\ UNCHANGED <<callee, ps, page, records, result, log, outcome>>

\* The next criterion / basic-search construction of the current strategy.
Construct ==
    /\ pc = "build"
    /\ ci < Len(Cur.calls)
    /\ \/ /\ ci' = ci + 1
          /\ log' = Append(log, Event(Cur.calls[ci + 1], Cur.type_name, 0, NoPS, FALSE, FALSE))
          /\ UNCHANGED <<op, arg, tier, callee, pc, ps, page, records, result, outcome>>
       \/ Raise(Event(Cur.calls[ci + 1], Cur.type_name, 0, NoPS, FALSE, TRUE))

\* `ps = PaginatedSearch(...)` then `records = []`.
PaginatedSearch ==
    /\ pc = "build"
    /\ Cur.kind = "search"
    /\ ci = Len(Cur.calls)
    /\ \/ \E pp \in Pages(Cur.filter) :
            LET q == Query(Cur.type_name, pp) IN
            /\ ps' = q
            /\ records' = NewAccumulator(records)
            /\ page' = 1
            /\ pc' = "loop"
            /\ log' = Append(log, Event("PaginatedSearch", Cur.type_name, 0, q, FALSE, FALSE))
            /\ UNCHANGED <<op, arg, tier, callee, ci, result, outcome>>
       \/ Raise(Event("PaginatedSearch", Cur.type_name, 0, NoPS, FALSE, TRUE))

\* One iteration of `for page in range(1, ps.total_pages + 1)`.
goto_page ==
    /\ pc = "loop"
    /\ HasRecords(ps)
    /\ page <= LastPage(ps)
    /\ \/ /\ records' = Extend(records, PageRecords(ps, page, tier), Cur.filter)
          /\ page' = page + 1
          /\ log' = Append(log, Event("goto_page", ps.type_name, page, ps, FALSE, FALSE))
          /\ UNCHANGED <<op, arg, tier, callee, pc, ci, ps, result, outcome>>
       \/ Raise(Event("goto_page", ps.type_name, page, ps, FALSE, TRUE))

\* The page loop is over (or was never entered).  A single-strategy function
\* executes `return records`; a tier goes on to its `if records:`.
EndLoop ==
    /\ pc = "loop"
    /\ ~(HasRecords(ps) /\ page <= LastPage(ps))
    /\ IF callee # "none"
         THEN /\ callee' = "none"
              /\ pc' = "tail"
              /\ UNCHANGED <<result, outcome>>
         ELSE IF Tiered(Fn(op))
           THEN /\ pc' = "tail"
                /\ UNCHANGED <<callee, result, outcome>>
           ELSE /\ result' = records
                /\ pc' = "done"
                /\ outcome' = [outcome EXCEPT ![tier] = Outcome("returned", records, records # <<>>)]
                /\ UNCHANGED callee
    /\ UNCHANGED <<op, arg, tier, ci, ps, page, records, log>>

\* `if records:` at the end of a tier (`if custom_lists:` in tier 3 of
\* get_custom_segments): return, or leave the tier.
IfRecords ==
    /\ pc = "tail"
    /\ IF Yielded(records)
         THEN /\ result' = TierReturn(Cur.returns, records)
              /\ pc' = "done"
              /\ outcome' = [outcome EXCEPT ![tier] = Outcome("returned", records, records # <<>>)]
              /\ UNCHANGED <<tier, ci>>
         ELSE HandOver("passed")
    /\ UNCHANGED <<op, arg, callee, ps, page, records, log>>

\* `from ... import GET_ALL_RECORD_TYPES` and `if '<key>' in GET_ALL_RECORD_TYPES:`.
\* The registry is the installed SDK's: the key is in it or not, or the import fails.
InRegistry ==
    /\ pc = "build"
    /\ Cur.kind = "getAll"
    /\ \/ /\ pc' = "getall"
          /\ log' = Append(log, Event("GET_ALL_RECORD_TYPES", Cur.type_name, 0, NoPS, TRUE, FALSE))
          /\ UNCHANGED <<op, arg, tier, callee, ci, ps, page, records, result, outcome>>
       \/ /\ HandOver("skipped")
          /\ log' = Append(log, Event("GET_ALL_RECORD_TYPES", Cur.type_name, 0, NoPS, FALSE, FALSE))
          /\ UNCHANGED <<op, arg, callee, ps, page, records>>
       \/ Raise(Event("GET_ALL_RECORD_TYPES", Cur.type_name, 0, NoPS, FALSE, TRUE))

\* `records = ns_connection.client.getAll(recordType=...)`.
getAll ==
    /\ pc = "getall"
    /\ \/ \E n \in 0..MaxRecords :
            /\ records' = GetAllRecords(Cur.type_name, n, tier)
            /\ pc' = "tail"
            /\ log' = Append(log, Event("getAll", Cur.type_name, 0, NoPS, FALSE, FALSE))
            /\ UNCHANGED <<op, arg, tier, callee, ci, ps, page, result, outcome>>
       \/ Raise(Event("getAll", Cur.type_name, 0, NoPS, FALSE, TRUE))

\* A tier calls another fetch function of the module.
CallNested ==
    /\ pc = "build"
    /\ callee = "none"
    /\ Cur.kind = "call"
    /\ callee' = Cur.callee
    /\ ci' = 0
    /\ UNCHANGED <<op, arg, tier, pc, ps, page, records, result, log, outcome>>

Next ==
    \/ Call
    \/ Construct
    \/ PaginatedSearch
    \/ goto_page
    \/ EndLoop
    \/ IfRecords
    \/ InRegistry
    \/ getAll
    \/ CallNested

Spec == Init /\ [][Next]_vars

\* The call runs to its return: no step of a synchronous call is postponed forever.
FairSpec == Spec /\ WF_vars(Next)

\* ------------------------------------------------------ reading the history

Done == pc = "done"

SingleStrategy == op # "none" /\ ~Tiered(Fn(op))

\* The exceptions the call met so far.
AnyRaise == \E i \in DOMAIN log : log[i].raised

\* The uses tier t made of the connection handle.
EventsOf(t) == SelectSeq(log, LAMBDA e : e.tier = t)

\* Requests to the remote service: a search, a further page, a get-all.
IsRequest(e) == e.call \in {"PaginatedSearch", "goto_page", "getAll"}

\* The page numbers tier t requested, in the order it requested them.
GotoPages(t) ==
    LET g == SelectSeq(log, LAMBDA e : e.tier = t /\ e.call = "goto_page")
    IN  [i \in 1..Len(g) |-> g[i].page]

\* Every record of query q, page by page, as tier t would be served them.
RECURSIVE FromPage(_, _, _)
FromPage(q, k, t) ==
    IF k > Len(q.pages) THEN <<>> ELSE PageRecords(q, k, t) \o FromPage(q, k + 1, t)

AllRecords(q, t) == FromPage(q, 1, t)

\* Tier t completed without raising and held records at its end.
NonEmptyTier(t) == outcome[t].status \in {"returned", "passed"} /\ outcome[t].held

\* Tier t's query answered that it holds zero records.
ZeroQuery(t) ==
    \E i \in DOMAIN log :
        /\ log[i].tier = t
        /\ log[i].call = "PaginatedSearch"
        /\ ~log[i].raised
        /\ log[i].zero

Range(f) == {f[i] : i \in DOMAIN f}

\* ------------------------------------------------------------------ claims

\* C1 (as stated): if the connection handle raises at any point of a fetch, the
\* failure never reaches the caller and the caller observes an empty sequence.
C1_EmptyOnAnyRaise ==
    /\ pc # "raised"
    /\ (Done /\ AnyRaise) => result = <<>>

\* C1 (amended): an exception never reaches the caller; a single-strategy fetch
\* that met one returns the empty sequence; a tiered fetch that met one returns
\* the empty sequence or the records of a tier in which nothing raised.
C1_Contained ==
    /\ pc # "raised"
    /\ (Done /\ AnyRaise /\ SingleStrategy) => result = <<>>
    /\ (Done /\ AnyRaise /\ ~SingleStrategy) =>
          \/ result = <<>>
          \/ \E t \in 1..4 :
                /\ outcome[t].status = "returned"
                /\ result = outcome[t].recs
                /\ \A i \in DOMAIN log : log[i].tier = t => ~log[i].raised

\* A single-strategy fetch had records of page 1 in hand when page 2 raised, and
\* returned the empty sequence.
C1_Witness ==
    /\ Done
    /\ SingleStrategy
    /\ outcome[1].status = "raised"
    /\ outcome[1].held
    /\ result = <<>>

\* C2 (as stated): in every fetch, tiered ones included, a query that reports
\* zero records makes the fetch return the empty sequence with no page request
\* issued during the call.
C2_ZeroMeansEmptyCall ==
    (Done /\ \E t \in 1..4 : ZeroQuery(t)) =>
        /\ result = <<>>
        /\ \A i \in DOMAIN log : log[i].call # "goto_page"

\* C2 (amended): a query that reports zero records is never paged and no record
\* of its tier is returned; a single-strategy fetch then returns the empty
\* sequence with no page request issued during the call.
C2_ZeroQueryNotPaged ==
    /\ \A t \in 1..4 : ZeroQuery(t) =>
          /\ GotoPages(t) = <<>>
          /\ \A r \in Range(result) : r.tier # t
    /\ (Done /\ SingleStrategy /\ ZeroQuery(1)) =>
          /\ result = <<>>
          /\ \A i \in DOMAIN log : log[i].call # "goto_page"

\* A single-strategy fetch returned on a query of zero records that reported
\* pages it could have asked for.
C2_Witness ==
    /\ Done
    /\ SingleStrategy
    /\ ZeroQuery(1)
    /\ ps.total_pages > 0
    /\ result = <<>>

\* C3: a single-strategy fetch on a query of N > 0 records in P pages, nothing
\* raising, requests pages 1..P in ascending order, each once, and returns the
\* N records in page order, then within-page order.
C3_AllPagesInOrder ==
    (Done /\ SingleStrategy /\ ~AnyRaise /\ ps.num_records > 0) =>
        /\ GotoPages(1) = [k \in 1..ps.total_pages |-> k]
        /\ result = AllRecords(ps, 1)
        /\ Len(result) = ps.num_records
        /\ \A i, j \in DOMAIN result : i # j => result[i] # result[j]

\* Two pages, the first with one record and the second with one, came back.
C3_Witness ==
    /\ Done
    /\ SingleStrategy
    /\ ~AnyRaise
    /\ ps.total_pages = 2
    /\ Len(ps.pages[1]) = 1
    /\ Len(result) = 2

\* C4: in get_journal_entries, when tier 1 raises and tier 2 does not, the
\* result is the unfiltered search's records whose recordType is
\* "JournalEntry", in page order, then within-page order.
C4_FallbackFiltered ==
    (/\ Done
     /\ op = "get_journal_entries"
     /\ outcome[1].status = "raised"
     /\ outcome[2].status \in {"returned", "passed"}) =>
        result = SelectSeq(AllRecords(ps, 2), LAMBDA r : r.recordType = "JournalEntry")

\* Tier 1 raised and tier 2 returned a journal entry, leaving out a record
\* without the attribute and possibly others.
C4_Witness ==
    /\ Done
    /\ op = "get_journal_entries"
    /\ outcome[1].status = "raised"
    /\ outcome[2].status = "returned"
    /\ \E k \in DOMAIN ps.pages : \E i \in DOMAIN ps.pages[k] : ps.pages[k][i] = Absent
    /\ Len(result) < ps.num_records

\* C5 (as stated): in get_journal_entries tier 2 starts only if tier 1 raised.
C5_Tier2OnlyAfterRaise ==
    (op = "get_journal_entries" /\ tier >= 2) => outcome[1].status = "raised"

\* C5 (amended): in get_journal_entries tier 2 starts only if tier 1 raised or
\* yielded no record; when tier 1 yields a record the fetch returns tier 1's
\* records and opens no unfiltered Transaction query.
C5_Tier2AfterRaiseOrEmpty ==
    op = "get_journal_entries" =>
        /\ tier >= 2 => (outcome[1].status = "raised" \/ ~outcome[1].held)
        /\ NonEmptyTier(1) =>
              /\ Done
              /\ result = outcome[1].recs
              /\ EventsOf(2) = <<>>

\* Tier 1 completed with no record, nothing raised, and tier 2's unfiltered
\* query was opened.
C5_Witness ==
    /\ op = "get_journal_entries"
    /\ outcome[1].status = "passed"
    /\ \A i \in DOMAIN log : log[i].tier = 1 => ~log[i].raised
    /\ \E i \in DOMAIN log :
          log[i].tier = 2 /\ log[i].call = "PaginatedSearch" /\ ~log[i].raised

\* C6: get_custom_segments never returns custom-list content: whenever tier (c)
\* is reached the result is empty, and every record returned comes from the
\* CustomSegment search or from getAll.
C6_NoCustomLists ==
    (Done /\ op = "get_custom_segments") =>
        /\ tier = 3 => result = <<>>
        /\ (\A t \in 1..3 : \E i \in DOMAIN log : log[i].tier = t /\ log[i].raised) =>
              result = <<>>
        /\ \A r \in Range(result) : r.type_name = "CustomSegment" /\ r.tier \in {1, 2}
        /\ \A r \in Range(result) : r.tier = 1 <=> r.via = "search"

\* The direct search and getAll raised, tier (c) found custom lists and the
\* fetch returned the empty sequence.
C6_Witness ==
    /\ Done
    /\ op = "get_custom_segments"
    /\ outcome[1].status = "raised"
    /\ outcome[2].status = "raised"
    /\ outcome[3].status = "returned"
    /\ outcome[3].recs # <<>>
    /\ result = <<>>

\* C7: in get_usages, when tier (a) yields records, no later tier is invoked
\* and the result is tier (a)'s records.
C7_FirstTierWins ==
    (op = "get_usages" /\ NonEmptyTier(1)) =>
        /\ Done
        /\ \A i \in DOMAIN log : log[i].tier = 1
        /\ result = AllRecords(ps, 1)

\* Tier (a) returned two records.
C7_Witness ==
    /\ Done
    /\ op = "get_usages"
    /\ outcome[1].status = "returned"
    /\ Len(result) = 2

\* The first tier of get_usages that completed holding records, or 0.
FirstNonEmpty ==
    IF \E t \in 1..4 : NonEmptyTier(t)
      THEN CHOOSE t \in 1..4 : NonEmptyTier(t) /\ \A u \in 1..(t - 1) : ~NonEmptyTier(u)
      ELSE 0

\* C8: get_usages tries (a) direct search, (b) get-all (only with 'usage' in the
\* registry), (c) transaction search for 'Usage', (d) basic-search-factory
\* search, in that order; a tier that raises or yields nothing hands over to the
\* next; the result is the records of the first tier that yields any, and is
\* empty exactly when none does.
C8_TiersInOrder ==
    op = "get_usages" =>
        /\ \A i \in DOMAIN log : i > 1 => log[i - 1].tier <= log[i].tier
        /\ \A t \in 1..4 : t < tier =>
              /\ outcome[t].status \in {"raised", "passed", "skipped"}
              /\ ~NonEmptyTier(t)
        /\ \A t \in 1..4 : t > tier => outcome[t].status = "notrun"
        /\ \A i \in DOMAIN log :
              LET e == log[i] IN
              /\ e.tier = 1 => e.fn = "get_usages" /\ e.type_name = "Usage"
                               /\ e.call \in {"PaginatedSearch", "goto_page"}
              /\ e.tier = 2 => e.fn = "get_usages"
                               /\ e.call \in {"GET_ALL_RECORD_TYPES", "getAll"}
              /\ e.tier = 3 => e.fn = "get_transaction_data" /\ e.value = "Usage"
              /\ e.tier = 4 => e.fn = "get_usages" /\ e.type_name = "Usage"
                               /\ e.call \in {"basic_search_factory", "PaginatedSearch",
                                              "goto_page"}
              /\ e.call = "getAll" =>
                    \E j \in 1..(i - 1) : log[j].call = "GET_ALL_RECORD_TYPES" /\ log[j].found
        /\ Done =>
              /\ FirstNonEmpty # 0 => (tier = FirstNonEmpty /\ result = outcome[tier].recs)
              /\ FirstNonEmpty = 0 => (tier = 4 /\ result = <<>>)
              /\ result = <<>> <=> FirstNonEmpty = 0

\* Tier (a) raised, (b) was skipped, (c) yielded nothing and (d) returned records.
C8_Witness ==
    /\ Done
    /\ op = "get_usages"
    /\ outcome[1].status = "raised"
    /\ outcome[2].status = "skipped"
    /\ outcome[3].status = "passed"
    /\ outcome[4].status = "returned"
    /\ result # <<>>

\* The total page count tier t's query reported, 0 if it opened none.
TotalPagesOf(t) ==
    LET q == SelectSeq(log, LAMBDA e : e.tier = t /\ e.call = "PaginatedSearch" /\ ~e.raised)
    IN  IF q = <<>> THEN 0 ELSE q[1].total_pages

RequestsOf(t) == Len(SelectSeq(log, LAMBDA e : e.tier = t /\ IsRequest(e)))

\* No tier is entered again, no strategy is started twice, no page is asked for
\* twice, and the requests of a tier number at most 1 + its total page count.
NoRetry ==
    /\ \A i \in DOMAIN log : i > 1 => log[i - 1].tier <= log[i].tier
    /\ \A t \in 1..4 :
          /\ Len(SelectSeq(log, LAMBDA e : e.tier = t /\ e.call \in {"PaginatedSearch", "getAll"})) <= 1
          /\ \A i, j \in DOMAIN GotoPages(t) : i < j => GotoPages(t)[i] < GotoPages(t)[j]
          /\ RequestsOf(t) <= 1 + TotalPagesOf(t)
    /\ Len(SelectSeq(log, IsRequest)) <= TotalPagesOf(1) + TotalPagesOf(2) + TotalPagesOf(3) + TotalPagesOf(4) + 4

\* How far the call has come: the tier, and the position inside the tier.
Rank ==
    CASE pc = "idle" -> 0
      [] pc \in {"done", "raised"} -> 100
      [] pc = "build" /\ callee = "none" -> 10 * tier
      [] pc = "build" /\ callee # "none" -> 10 * tier + 1
      [] pc = "getall" -> 10 * tier + 2
      [] pc = "loop" -> 10 * tier + 3
      [] pc = "tail" -> 10 * tier + 4

\* Every step moves the call forward or costs one more use of the handle.
Advances == Rank' > Rank \/ (Rank' = Rank /\ Len(log') > Len(log))

\* C9: no operation retries: every tier is started at most once and in order,
\* every page number of a tier's query is requested at most once, the service
\* requests are bounded by the sum over tiers of (1 + total page count), and
\* every call ends with a returned sequence: each step advances the call, and
\* only a call that has returned has no step left.
C9_NoRetryAndReturns ==
    /\ []NoRetry
    /\ [][Advances]_vars
    /\ [](pc \in {"idle", "build", "getall", "loop", "tail", "done"})
    /\ [](Done \/ ENABLED Next)

\* Under fairness every call returns (checked with the bounds as written).
Terminates == <>Done

\* A tiered fetch went through all its tiers, paging more than once, and returned.
C9_Witness ==
    /\ Done
    /\ op = "get_usages"
    /\ tier = 4
    /\ RequestsOf(1) = 3
    /\ RequestsOf(3) >= 2
    /\ RequestsOf(4) >= 2

\* C10: when a page request k > 1 raises after earlier pages were fetched, none
\* of the records accumulated from them is returned: a single-strategy fetch
\* returns the empty sequence, a tiered fetch returns no record of that tier.
C10_PartialDiscarded ==
    Done =>
        \A i \in DOMAIN log :
            (log[i].raised /\ log[i].call = "goto_page" /\ log[i].page > 1) =>
                /\ \A r \in Range(result) : r.tier # log[i].tier
                /\ SingleStrategy => result = <<>>

\* A tier held records when its page request raised, and a later tier's records
\* were returned.
C10_Witness ==
    /\ Done
    /\ ~SingleStrategy
    /\ \E t \in 1..3 : outcome[t].status = "raised" /\ outcome[t].held
    /\ \E i \in DOMAIN log : log[i].raised /\ log[i].call = "goto_page" /\ log[i].page > 1
    /\ result # <<>>

====
